---- MODULE Spec2Model ----
(***************************************************************************)
(* Model of depgraph (src/src/lib.rs): DepGraphBuilder (add_rule, build)   *)
(* and DepGraph (make, build_dependency, dependencies_newer).              *)
(*                                                                         *)
(* Paths are numbers 1..NPaths (paths are only compared for equality).     *)
(* Node indices are 1-based positions in graph.nodes (petgraph's are       *)
(* 0-based).  An edge <<a, b>> means "a depends on b".                     *)
(***************************************************************************)
EXTENDS Integers, Sequences, FiniteSets, TLC

\* ---------------------------------------------------------------- bounds
NPaths == 3
MaxRules == 2
MaxDeps == 2
NFns == 2
MaxTime == 1
MakeRules == 2

Paths == 1..NPaths
BuildFns == 1..NFns
Times == 0..MaxTime
Msgs == {"msg_a", "msg_b"}

\* build_fn: None (Option<Box<Fn>>)
None == 0
\* a file that is not on disk (Path::exists() is false)
Absent == -1
\* a file whose metadata can be read but whose modification time cannot
\* (Metadata::modified returns Err)
NoMtime == -2

VARIABLES
  edges,      \* DepGraphBuilder.edges: the rules, in add_rule order
  phase,      \* "builder" | "built" | "failed"  (build() consumes the builder)
  buildErr,   \* "none" | "DuplicateFile" | "Cycle": what build() returned
  graph,      \* DepGraph.graph: [nodes: Seq of DependencyNode, edges: Seq of <<a, b>>]
  fs,         \* the filesystem: path -> modification time, or Absent
  clock,      \* the current time
  pc,         \* "idle" | "loop" | "return": position inside make
  make_params, \* the MakeParams of the running make call: "None" | "ForceBuild"
  order,      \* ordered_deps_rev: the result of toposort
  attempted,  \* number of iterations of the loop of make started so far
  result,     \* what the running make call returns ("none" while it runs)
  invoked,    \* history: nodes whose build function was called, in call order
  fnret,      \* history: what the last called build function returned
  fnargs,     \* history: the arguments the last called build function was given
  written,    \* history: paths written by their build function during this call
  removed,    \* history: paths deleted by build functions during this call
  behaved,    \* history: every build function called so far wrote its own output, only
  prev,       \* history: the previous make call, forgotten once the filesystem changes
  since       \* history: prev as it was when the running call started

vars == <<edges, phase, buildErr, graph, fs, clock, pc, make_params, order,
          attempted, result, invoked, fnret, fnargs, written, removed, behaved,
          prev, since>>

makeVars == <<pc, make_params, order, attempted, result, invoked, fnret, fnargs,
              written, removed, behaved, prev, since>>

\* ---------------------------------------------------------------- helpers
RECURSIVE Reverse(_)
Reverse(s) ==
  IF s = <<>> THEN <<>> ELSE Reverse(Tail(s)) \o <<Head(s)>>

Range(s) == {s[i] : i \in DOMAIN s}

SeqsUpTo(S, n) == UNION {[1..k -> S] : k \in 0..n}

EmptyGraph == [nodes |-> <<>>, edges |-> <<>>]

\* ---------------------------------------------------------------- builder
\* DependencyNode
DependencyNode(filename, build_fn) ==
  [filename |-> filename, build_fn |-> build_fn]

\* mutant of FirstPass: no contains_key test, a repeated output adds a second node
RECURSIVE FirstPassNoDuplicateTest(_, _, _)
FirstPassNoDuplicateTest(es, i, acc) ==
  IF i > Len(es) THEN acc
  ELSE LET e == es[i]
           idx == Len(acc.nodes) + 1 IN
    FirstPassNoDuplicateTest(es, i + 1,
      [err |-> "none",
       files |-> (e.filename :> idx) @@ acc.files,
       nodes |-> Append(acc.nodes, DependencyNode(e.filename, e.build_fn)),
       edges_after_node |-> Append(acc.edges_after_node, <<idx, e.dependencies>>)])

\* first loop of build(): add a node per rule, fail on a repeated output
RECURSIVE FirstPass(_, _, _)
FirstPass(es, i, acc) ==
  IF i > Len(es) THEN acc
  ELSE LET e == es[i] IN
    IF e.filename \in DOMAIN acc.files
    THEN [acc EXCEPT !.err = "DuplicateFile"]
    ELSE LET idx == Len(acc.nodes) + 1 IN
      FirstPass(es, i + 1,
        [err |-> "none",
         files |-> acc.files @@ (e.filename :> idx),
         nodes |-> Append(acc.nodes, DependencyNode(e.filename, e.build_fn)),
         edges_after_node |-> Append(acc.edges_after_node, <<idx, e.dependencies>>)])

\* mutant of AddDependencies: a new leaf is not recorded in files
RECURSIVE AddDependenciesForgetLeaf(_, _, _, _)
AddDependenciesForgetLeaf(idx, deps, j, acc) ==
  IF j > Len(deps) THEN acc
  ELSE LET dep == deps[j] IN
    IF dep \in DOMAIN acc.files
    THEN AddDependenciesForgetLeaf(idx, deps, j + 1,
           [acc EXCEPT !.edges = Append(@, <<idx, acc.files[dep]>>)])
    ELSE LET idx2 == Len(acc.nodes) + 1 IN
      AddDependenciesForgetLeaf(idx, deps, j + 1,
        [files |-> acc.files,
         nodes |-> Append(acc.nodes, DependencyNode(dep, None)),
         edges |-> Append(acc.edges, <<idx, idx2>>)])

\* mutant of AddDependencies: only a node added before idx is found in files,
\* as if edges were wired while the rules are read
RECURSIVE AddDependenciesEarlierOnly(_, _, _, _)
AddDependenciesEarlierOnly(idx, deps, j, acc) ==
  IF j > Len(deps) THEN acc
  ELSE LET dep == deps[j] IN
    IF dep \in DOMAIN acc.files /\ acc.files[dep] <= idx
    THEN AddDependenciesEarlierOnly(idx, deps, j + 1,
           [acc EXCEPT !.edges = Append(@, <<idx, acc.files[dep]>>)])
    ELSE LET idx2 == Len(acc.nodes) + 1 IN
      AddDependenciesEarlierOnly(idx, deps, j + 1,
        [files |-> acc.files,
         nodes |-> Append(acc.nodes, DependencyNode(dep, None)),
         edges |-> Append(acc.edges, <<idx, idx2>>)])

\* inner loop of the second pass: the dependencies of one node
RECURSIVE AddDependencies(_, _, _, _)
AddDependencies(idx, deps, j, acc) ==
  IF j > Len(deps) THEN acc
  ELSE LET dep == deps[j] IN
    IF dep \in DOMAIN acc.files
    THEN AddDependencies(idx, deps, j + 1,
           [acc EXCEPT !.edges = Append(@, <<idx, acc.files[dep]>>)])
    ELSE LET idx2 == Len(acc.nodes) + 1 IN
      AddDependencies(idx, deps, j + 1,
        [files |-> acc.files @@ (dep :> idx2),
         nodes |-> Append(acc.nodes, DependencyNode(dep, None)),
         edges |-> Append(acc.edges, <<idx, idx2>>)])

\* second loop of build(): add the edges, and leaves for unknown files
RECURSIVE SecondPass(_, _, _)
SecondPass(ean, i, acc) ==
  IF i > Len(ean) THEN acc
  ELSE SecondPass(ean, i + 1, AddDependencies(ean[i][1], ean[i][2], 1, acc))

Successors(g, n) == {e[2] : e \in {x \in Range(g.edges) : x[1] = n}}

RECURSIVE ReachableFrom(_, _, _)
ReachableFrom(g, frontier, seen) ==
  IF frontier = {} THEN seen
  ELSE LET next == UNION {Successors(g, n) : n \in frontier} IN
    ReachableFrom(g, next \ seen, seen \cup next)

\* nodes reachable from n along one or more edges
Descendants(g, n) == ReachableFrom(g, {n}, {})

\* mutant of is_cyclic_directed: an edge from a node to itself is not seen
is_cyclic_directed_no_self_loop(g) ==
  \E n, m \in DOMAIN g.nodes :
    n # m /\ m \in Descendants(g, n) /\ n \in Descendants(g, m)

\* mutant of is_cyclic_directed: no graph is found cyclic
is_cyclic_directed_never(g) == FALSE

\* petgraph::algo::is_cyclic_directed
is_cyclic_directed(g) ==
  \E n \in DOMAIN g.nodes : n \in Descendants(g, n)

\* DepGraphBuilder::build
build(es) ==
  LET p1 == FirstPass(es, 1, [err |-> "none", files |-> <<>>, nodes |-> <<>>,
                              edges_after_node |-> <<>>])
  IN IF p1.err # "none" THEN [err |-> p1.err, graph |-> EmptyGraph]
     ELSE LET p2 == SecondPass(p1.edges_after_node, 1,
                      [files |-> p1.files, nodes |-> p1.nodes, edges |-> <<>>])
              g == [nodes |-> p2.nodes, edges |-> p2.edges]
          IN IF is_cyclic_directed(g) THEN [err |-> "Cycle", graph |-> EmptyGraph]
             ELSE [err |-> "none", graph |-> g]

NoResult == [kind |-> "none", path |-> 0, msg |-> ""]

\* prev, since: which call came before (call), whether it returned Ok with every
\* build function it called writing its own output, no older than the
\* dependencies, and nothing else (clean), and how many it called (built)
NoCall == [call |-> "none", clean |-> FALSE, built |-> 0]

\* no build function has been called yet
NoArgs == [out |-> 0, deps |-> <<>>]

InitCommon ==
  /\ phase = "builder"
  /\ buildErr = "none"
  /\ graph = EmptyGraph
  /\ fs = [p \in Paths |-> Absent]
  /\ clock = 0
  /\ pc = "idle"
  /\ make_params = "None"
  /\ order = <<>>
  /\ attempted = 0
  /\ result = NoResult
  /\ invoked = <<>>
  /\ fnret = "none"
  /\ fnargs = NoArgs
  /\ written = {}
  /\ removed = {}
  /\ behaved = TRUE
  /\ prev = NoCall
  /\ since = NoCall

\* DepGraphBuilder::new
Init ==
  /\ edges = <<>>
  /\ InitCommon

\* DepGraphBuilder::add_rule
AddRule ==
  /\ phase = "builder"
  /\ Len(edges) < MaxRules
  /\ \E filename \in Paths, dependencies \in SeqsUpTo(Paths, MaxDeps), build_fn \in BuildFns :
       edges' = Append(edges, [filename |-> filename, dependencies |-> dependencies,
                               build_fn |-> build_fn])
  /\ UNCHANGED <<phase, buildErr, graph, fs, clock>>
  /\ UNCHANGED makeVars

\* DepGraphBuilder::build (consumes the builder)
Build ==
  /\ phase = "builder"
  /\ LET r == build(edges) IN
       /\ buildErr' = r.err
       /\ graph' = r.graph
       /\ phase' = IF r.err = "none" THEN "built" ELSE "failed"
  /\ UNCHANGED <<edges, fs, clock>>
  /\ UNCHANGED makeVars

\* ---------------------------------------------------------------- make
Ok == [kind |-> "Ok", path |-> 0, msg |-> ""]
Cycle == [kind |-> "Cycle", path |-> 0, msg |-> ""]
MissingFile(p) == [kind |-> "MissingFile", path |-> p, msg |-> ""]
BuildFailed(s) == [kind |-> "BuildFailed", path |-> 0, msg |-> s]
\* error::Error::Io, which #[from] would produce from an io::Error
Io == [kind |-> "Io", path |-> 0, msg |-> ""]
\* not a value make returns: the thread panicked inside make
Panicked == [kind |-> "panic", path |-> 0, msg |-> ""]

\* petgraph::algo::toposort: some order of all the nodes in which every node
\* comes before the nodes its edges point to; an error when there is none.
\* Which of these orders petgraph returns is not fixed by its contract.
Toposorts(g) ==
  LET n == Len(g.nodes) IN
  {s \in [1..n -> 1..n] :
     /\ \A i, j \in 1..n : i # j => s[i] # s[j]
     /\ \A e \in Range(g.edges) :
          \E i, j \in 1..n : s[i] = e[1] /\ s[j] = e[2] /\ i < j}

\* mutant of MakeOrder: the .rev() is missing
MakeOrderNotReversed(ordered_deps_rev) == ordered_deps_rev

\* the loop of make: ordered_deps_rev.iter().rev()
MakeOrder(ordered_deps_rev) == Reverse(ordered_deps_rev)

\* mutant of ForceFlag: ForceBuild is treated like None
ForceFlagNever(mp) == FALSE

\* the match on make_params
ForceFlag(mp) == mp = "ForceBuild"

\* mutant of Propagates: the result of build_dependency is dropped
PropagatesNever(r) == FALSE

\* the ? of make's loop: an Err ends the call
Propagates(r) == r.kind # "Ok"

\* graph.neighbors_directed(idx, Outgoing), mapped to file names.  petgraph
\* walks a node's edge list from the edge added last to the one added first.
OutEdges(g, idx) ==
  LET IsOut(e) == e[1] = idx IN SelectSeq(g.edges, IsOut)

children(g, idx) ==
  LET out == Reverse(OutEdges(g, idx)) IN
  [i \in DOMAIN out |-> g.nodes[out[i][2]].filename]

\* Path::exists
exists(f, p) == f[p] # Absent

\* mutant of FirstMissing: the children are not checked
FirstMissingNotChecked(f, ch, i) == 0

\* the loop over children: the first child that is not on disk, 0 when all are
RECURSIVE FirstMissing(_, _, _)
FirstMissing(f, ch, i) ==
  IF i > Len(ch) THEN 0
  ELSE IF ~exists(f, ch[i]) THEN ch[i]
  ELSE FirstMissing(f, ch, i + 1)

\* mutant of dependencies_newer: >= for >
dependencies_newer_or_equal(f, filename, deps) ==
  \/ ~exists(f, filename)
  \/ \E i \in DOMAIN deps : f[deps[i]] >= f[filename]

\* mutant of dependencies_newer: != for >
dependencies_differ(f, filename, deps) ==
  \/ ~exists(f, filename)
  \/ \E i \in DOMAIN deps : f[deps[i]] # f[filename]

\* dependencies_newer, the unwrap calls: the function panics when the
\* modification time of the file, or of a dependency looked at before one newer
\* than the file is found, cannot be read
dependencies_newer_panics(f, filename, deps) ==
  /\ exists(f, filename)
  /\ \/ f[filename] = NoMtime
     \/ \E i \in DOMAIN deps :
          /\ f[deps[i]] = NoMtime
          /\ \A j \in 1..(i - 1) : ~(f[deps[j]] > f[filename])

\* mutant of dependencies_newer: only the first dependency is compared
dependencies_newer_first_only(f, filename, deps) ==
  \/ ~exists(f, filename)
  \/ deps # <<>> /\ f[deps[1]] > f[filename]

\* mutant of dependencies_newer: the dependencies are not compared
dependencies_newer_only_missing(f, filename, deps) == ~exists(f, filename)

\* dependencies_newer, when it returns
dependencies_newer(f, filename, deps) ==
  \/ ~exists(f, filename)
  \/ \E i \in DOMAIN deps : f[deps[i]] > f[filename]

\* mutant of CheckCreated: the output is not checked
CheckCreatedNotChecked(f, filename) == Ok

\* the tail of build_dependency: the node's own file must exist
CheckCreated(f, filename) ==
  IF exists(f, filename) THEN Ok ELSE MissingFile(filename)

\* What a caller-supplied build function may do when it is called: return Ok
\* or a message, having (or not) written its output at the current time and
\* having (or not) deleted one file.
FnOutcomes ==
  [ret : {"Ok"}, write : BOOLEAN, rm : Paths \cup {0}]
    \cup [ret : Msgs, write : {FALSE}, rm : {0}]

NoOutcome == [ret |-> "none", write |-> FALSE, rm |-> 0]

CallBuildFn(f, now, filename, o) ==
  LET w == IF o.write THEN [f EXCEPT ![filename] = now] ELSE f
  IN IF o.rm # 0 THEN [w EXCEPT ![o.rm] = Absent] ELSE w

\* DepGraph::build_dependency: every way one call of it can go, as
\* [res: its result, fs: the filesystem after it, called: whether the build
\*  function ran, out: what the build function did]
build_dependency(g, idx, frc, f, now) ==
  LET dep == g.nodes[idx]
      ch == children(g, idx)
      miss == FirstMissing(f, ch, 1)
  IN IF miss # 0
     THEN {[res |-> MissingFile(miss), fs |-> f, called |-> FALSE, out |-> NoOutcome,
            args |-> NoArgs]}
     ELSE IF dep.build_fn # None /\ ~frc /\ dependencies_newer_panics(f, dep.filename, ch)
     THEN {[res |-> Panicked, fs |-> f, called |-> FALSE, out |-> NoOutcome,
            args |-> NoArgs]}
     ELSE IF dep.build_fn # None /\ (frc \/ dependencies_newer(f, dep.filename, ch))
     THEN {[res |-> IF o.ret # "Ok" THEN BuildFailed(o.ret)
                    ELSE CheckCreated(CallBuildFn(f, now, dep.filename, o), dep.filename),
            fs |-> CallBuildFn(f, now, dep.filename, o),
            called |-> TRUE,
            out |-> o,
            args |-> [out |-> dep.filename, deps |-> ch]] : o \in FnOutcomes}
     ELSE {[res |-> CheckCreated(f, dep.filename), fs |-> f, called |-> FALSE,
            out |-> NoOutcome, args |-> NoArgs]}

\* the build function of idx did what is expected of one: it returned Ok, wrote
\* its output, leaving it no older than the dependencies, and changed no other file
WroteOwnOutput(g, idx, o) ==
  /\ o.out.ret = "Ok"
  /\ o.out.write
  /\ o.out.rm = 0
  /\ \A d \in Range(children(g, idx)) : o.fs[d] <= o.fs[g.nodes[idx].filename]

\* DepGraph::make, up to the loop: toposort and the force flag
MakeStart ==
  /\ phase = "built"
  /\ pc = "idle"
  /\ make_params' \in {"None", "ForceBuild"}
  /\ IF Toposorts(graph) = {}
     THEN /\ order' = <<>>
          /\ result' = Cycle
          /\ pc' = "return"
     ELSE /\ order' \in Toposorts(graph)
          /\ result' = NoResult
          /\ pc' = "loop"
  /\ attempted' = 0
  /\ invoked' = <<>>
  /\ fnret' = "none"
  /\ fnargs' = NoArgs
  /\ written' = {}
  /\ removed' = {}
  /\ behaved' = TRUE
  /\ since' = prev
  /\ UNCHANGED <<edges, phase, buildErr, graph, fs, clock, prev>>

\* one iteration of the loop of make: self.build_dependency(*node, force)?
MakeStep ==
  /\ pc = "loop"
  /\ attempted < Len(order)
  /\ LET idx == MakeOrder(order)[attempted + 1] IN
     \E o \in build_dependency(graph, idx, ForceFlag(make_params), fs, clock) :
       /\ fs' = o.fs
       /\ attempted' = attempted + 1
       /\ invoked' = IF o.called THEN Append(invoked, idx) ELSE invoked
       /\ fnret' = IF o.called THEN o.out.ret ELSE fnret
       /\ fnargs' = IF o.called THEN o.args ELSE fnargs
       /\ written' = IF o.out.write THEN written \cup {graph.nodes[idx].filename}
                     ELSE written
       /\ removed' = IF o.out.rm # 0 THEN removed \cup {o.out.rm} ELSE removed
       /\ behaved' = (behaved /\ (o.called => WroteOwnOutput(graph, idx, o)))
       /\ IF Propagates(o.res)
          THEN result' = o.res /\ pc' = "return"
          ELSE result' = result /\ pc' = "loop"
  /\ UNCHANGED <<edges, phase, buildErr, graph, clock, make_params, order, prev, since>>

\* the end of the loop of make: Ok(())
MakeFinish ==
  /\ pc = "loop"
  /\ attempted = Len(order)
  /\ result' = Ok
  /\ pc' = "return"
  /\ UNCHANGED <<edges, phase, buildErr, graph, fs, clock, make_params, order,
                 attempted, invoked, fnret, fnargs, written, removed, behaved, prev,
                 since>>

\* make returns to its caller: the locals of the call are gone, and the
\* history of the call is summarised in prev
MakeReturn ==
  /\ pc = "return"
  /\ pc' = "idle"
  /\ prev' = [call |-> make_params,
              clean |-> (result = Ok /\ behaved),
              built |-> Len(invoked)]
  /\ make_params' = "None"
  /\ order' = <<>>
  /\ attempted' = 0
  /\ result' = NoResult
  /\ invoked' = <<>>
  /\ fnret' = "none"
  /\ fnargs' = NoArgs
  /\ written' = {}
  /\ removed' = {}
  /\ behaved' = TRUE
  /\ since' = NoCall
  /\ UNCHANGED <<edges, phase, buildErr, graph, fs, clock>>

\* ---------------------------------------------------------------- environment
\* between two make calls a file is written or created, with any timestamp
Touch ==
  /\ pc = "idle"
  /\ \E p \in Paths, t \in Times :
       /\ fs[p] # t
       /\ fs' = [fs EXCEPT ![p] = t]
  /\ prev' = NoCall
  /\ UNCHANGED <<edges, phase, buildErr, graph, clock, pc, make_params, order,
                 attempted, result, invoked, fnret, fnargs, written, removed, behaved,
                 since>>

\* between two make calls a file is deleted
Remove ==
  /\ pc = "idle"
  /\ \E p \in Paths :
       /\ fs[p] # Absent
       /\ fs' = [fs EXCEPT ![p] = Absent]
  /\ prev' = NoCall
  /\ UNCHANGED <<edges, phase, buildErr, graph, clock, pc, make_params, order,
                 attempted, result, invoked, fnret, fnargs, written, removed, behaved,
                 since>>

\* time passes
Tick ==
  /\ clock < MaxTime
  /\ clock' = clock + 1
  /\ UNCHANGED <<edges, phase, buildErr, graph, fs>>
  /\ UNCHANGED makeVars

\* ---------------------------------------------------------------- specifications
Next == AddRule \/ Build

\* the builder: any rules, in any order, then build()
Spec == Init /\ [][Next]_vars

\* rule sets for make: up to MakeRules rules, the k-th producing path k with its
\* own build function, over any dependency lists (paths are only ever compared
\* for equality, so which path a rule produces does not matter)
MakeRuleSets ==
  UNION {[1..n -> SeqsUpTo(Paths, MaxDeps)] : n \in 0..MakeRules}

InitMake ==
  /\ \E d \in MakeRuleSets :
       edges = [k \in DOMAIN d |->
                  [filename |-> k, dependencies |-> d[k], build_fn |-> k]]
  /\ phase = "builder"
  /\ buildErr = "none"
  /\ graph = EmptyGraph
  /\ fs \in [Paths -> Times \cup {Absent}]
  /\ clock \in Times
  /\ pc = "idle"
  /\ make_params = "None"
  /\ order = <<>>
  /\ attempted = 0
  /\ result = NoResult
  /\ invoked = <<>>
  /\ fnret = "none"
  /\ fnargs = NoArgs
  /\ written = {}
  /\ removed = {}
  /\ behaved = TRUE
  /\ prev = NoCall
  /\ since = NoCall

\* the same, on a filesystem where the modification time of some files cannot
\* be read
InitMakeIo ==
  /\ \E d \in MakeRuleSets :
       edges = [k \in DOMAIN d |->
                  [filename |-> k, dependencies |-> d[k], build_fn |-> k]]
  /\ phase = "builder"
  /\ buildErr = "none"
  /\ graph = EmptyGraph
  /\ fs \in [Paths -> Times \cup {Absent, NoMtime}]
  /\ \E p \in Paths : fs[p] = NoMtime
  /\ clock = 0
  /\ pc = "idle"
  /\ make_params = "None"
  /\ order = <<>>
  /\ attempted = 0
  /\ result = NoResult
  /\ invoked = <<>>
  /\ fnret = "none"
  /\ fnargs = NoArgs
  /\ written = {}
  /\ removed = {}
  /\ behaved = TRUE
  /\ prev = NoCall
  /\ since = NoCall

NextMake ==
  \/ Build
  \/ MakeStart
  \/ MakeStep
  \/ MakeFinish
  \/ MakeReturn
  \/ Touch
  \/ Remove
  \/ Tick

\* a graph is built from the rules, then make is called on it any number of times
SpecMake == InitMake /\ [][NextMake]_vars

\* the same calls, on a filesystem with unreadable modification times
SpecMakeIo == InitMakeIo /\ [][NextMake]_vars

\* ---------------------------------------------------------------- the rules, as declared
\* the output paths the rules declare
Outputs(es) == {es[i].filename : i \in DOMAIN es}

\* the dependency paths the rules name
DependencyPaths(es) == UNION {Range(es[i].dependencies) : i \in DOMAIN es}

\* two rules declare the same output path
HasDuplicate(es) ==
  \E i, j \in DOMAIN es : i # j /\ es[i].filename = es[j].filename

\* the paths some rule producing p lists as dependencies
DeclaredDeps(es, p) ==
  UNION {Range(es[i].dependencies) : i \in {k \in DOMAIN es : es[k].filename = p}}

RECURSIVE DeclaredReach(_, _, _)
DeclaredReach(es, frontier, seen) ==
  IF frontier = {} THEN seen
  ELSE LET next == UNION {DeclaredDeps(es, p) : p \in frontier} IN
    DeclaredReach(es, next \ seen, seen \cup next)

\* the rules contain a circular reference: some path depends on itself through
\* one or more rules
HasCycle(es) ==
  \E p \in Outputs(es) : p \in DeclaredReach(es, {p}, {})

BuildReturned == phase # "builder"

\* the same rules in every order
RuleOrders(es) ==
  LET n == Len(es) IN
  {[i \in 1..n |-> es[p[i]]] :
     p \in {f \in [1..n -> 1..n] : \A i, j \in 1..n : i # j => f[i] # f[j]}}

\* a graph seen through its paths: which build function each path has, and
\* which path depends on which
PathFns(g) == {<<g.nodes[n].filename, g.nodes[n].build_fn>> : n \in DOMAIN g.nodes}
PathEdges(g) ==
  {<<g.nodes[e[1]].filename, g.nodes[e[2]].filename>> : e \in Range(g.edges)}

\* ---------------------------------------------------------------- claims: build()
\* C8 as stated: whenever the rules contain a cycle, build() fails with Cycle.
C8_CycleAlwaysReported ==
  (BuildReturned /\ HasCycle(edges)) => buildErr = "Cycle"

\* C8, amended: rules with a cycle never give a graph; build() fails with Cycle
\* when no output path is declared twice, and with DuplicateFile when one is
\* (the first pass returns before the cycle check is reached).
C8_CycleRejected ==
  (BuildReturned /\ HasCycle(edges)) =>
    /\ phase = "failed"
    /\ graph = EmptyGraph
    /\ buildErr = IF HasDuplicate(edges) THEN "DuplicateFile" ELSE "Cycle"

\* build() has failed with Cycle on a rule that lists its own output
C8_Witness ==
  /\ phase = "failed"
  /\ buildErr = "Cycle"
  /\ \E i \in DOMAIN edges : edges[i].filename \in Range(edges[i].dependencies)

\* C9: two rules with the same output path, in either order and whatever their
\* dependency lists, make build() fail with DuplicateFile.
C9_DuplicateRejected ==
  (BuildReturned /\ HasDuplicate(edges)) =>
    /\ phase = "failed"
    /\ graph = EmptyGraph
    /\ buildErr = "DuplicateFile"

\* build() has failed with DuplicateFile on two rules for one output whose
\* dependency lists differ
C9_Witness ==
  /\ buildErr = "DuplicateFile"
  /\ Len(edges) = 2
  /\ edges[1].filename = edges[2].filename
  /\ edges[1].dependencies # edges[2].dependencies
  /\ Len(edges[1].dependencies) > Len(edges[2].dependencies)

\* C10: rules without a cycle and without a repeated output build, and the graph
\* has one vertex per output path plus one per dependency path that is not an
\* output.
C10_VertexCount ==
  (BuildReturned /\ ~HasCycle(edges) /\ ~HasDuplicate(edges)) =>
    /\ phase = "built"
    /\ buildErr = "none"
    /\ Len(graph.nodes) =
         Cardinality(Outputs(edges))
           + Cardinality(DependencyPaths(edges) \ Outputs(edges))

\* a graph has been built from two rules that share a dependency which one of
\* them lists twice
C10_Witness ==
  /\ phase = "built"
  /\ Len(edges) = 2
  /\ \E p \in Paths \ Outputs(edges) :
       /\ edges[1].dependencies = <<p, p>>
       /\ p \in Range(edges[2].dependencies)
  /\ Len(graph.nodes) = 3

\* C11: build() does not depend on the order of the add_rule calls: the same
\* rules in any other order give the same outcome and, when a graph is built,
\* the same node paths, the same build function for each path and the same
\* path-to-path edges; a dependency on an output declared by a later rule is
\* wired to that rule's node, not to a new leaf.
C11_OrderIndependent ==
  BuildReturned =>
    /\ \A q \in RuleOrders(edges) :
         LET r == build(q) IN
           /\ r.err = buildErr
           /\ PathFns(r.graph) = PathFns(graph)
           /\ PathEdges(r.graph) = PathEdges(graph)
    /\ phase = "built" =>
         \A i \in DOMAIN edges : \A d \in Range(edges[i].dependencies) :
           d \in Outputs(edges) =>
             \A n \in DOMAIN graph.nodes :
               graph.nodes[n].filename = d => graph.nodes[n].build_fn # None

\* a graph has been built from two rules with different build functions, the
\* first of which depends on the output of the second
C11_Witness ==
  /\ phase = "built"
  /\ Len(edges) = 2
  /\ edges[2].filename \in Range(edges[1].dependencies)
  /\ edges[1].build_fn # edges[2].build_fn
  /\ Len(graph.nodes) = 2
  /\ graph.edges # <<>>

\* C17: in a built graph no two nodes have the same path, a node has a build
\* function exactly when its path is the output of a rule (and then that rule's
\* function), and a file that is only a dependency has one node, without a
\* build function and without outgoing edges, whatever the number of rules
\* that depend on it.
C17_GraphShape ==
  phase = "built" =>
    /\ \A n, m \in DOMAIN graph.nodes :
         n # m => graph.nodes[n].filename # graph.nodes[m].filename
    /\ \A n \in DOMAIN graph.nodes :
         /\ (graph.nodes[n].build_fn # None) <=> (graph.nodes[n].filename \in Outputs(edges))
         /\ graph.nodes[n].build_fn # None =>
              \E i \in DOMAIN edges :
                /\ edges[i].filename = graph.nodes[n].filename
                /\ edges[i].build_fn = graph.nodes[n].build_fn
         /\ graph.nodes[n].build_fn = None => Successors(graph, n) = {}
    /\ \A p \in DependencyPaths(edges) \ Outputs(edges) :
         Cardinality({n \in DOMAIN graph.nodes : graph.nodes[n].filename = p}) = 1

\* a graph has been built from two rules that depend on the same undeclared
\* file, which has a single node, the target of two edges
C17_Witness ==
  /\ phase = "built"
  /\ Len(edges) = 2
  /\ \E p \in Paths \ Outputs(edges) :
       /\ edges[1].dependencies = <<p>>
       /\ edges[2].dependencies = <<p>>
       /\ \E n \in DOMAIN graph.nodes :
            /\ graph.nodes[n] = DependencyNode(p, None)
            /\ graph.edges = <<<<1, n>>, <<2, n>>>>
  /\ Len(graph.nodes) = 3

\* ---------------------------------------------------------------- the running make call
\* the nodes in the order the loop of make takes them
Exec == MakeOrder(order)

InCall == pc \in {"loop", "return"}

\* the call has ended with an error
Failed == pc = "return" /\ result.kind # "Ok"

\* the nodes build_dependency has been called on
Started == {Exec[i] : i \in 1..attempted}

\* the nodes build_dependency has returned Ok on
Succeeded == {Exec[i] : i \in 1..(IF Failed THEN attempted - 1 ELSE attempted)}

Nodes == DOMAIN graph.nodes
FileOf(n) == graph.nodes[n].filename
HasFn(n) == graph.nodes[n].build_fn # None

\* the files of the direct dependencies of n that are not on disk
MissingDeps(n) == {FileOf(d) : d \in {x \in Successors(graph, n) : fs[FileOf(x)] = Absent}}

\* stale as the specification defines it: the output is missing, or strictly
\* older than a direct dependency
Stale(n) ==
  \/ fs[FileOf(n)] = Absent
  \/ \E d \in Successors(graph, n) : fs[FileOf(d)] > fs[FileOf(n)]

\* this step is a call of build_dependency; the node it is called on
IsStep == pc = "loop" /\ attempted' = attempted + 1
StepNode == Exec[attempted + 1]

\* ---------------------------------------------------------------- claims: make
\* C1: in any make call a node is processed only after all the nodes it depends
\* on, directly or transitively, were processed successfully, and a build
\* function only runs for a node whose processing has started.
C1_DependenciesFirst ==
  InCall =>
    /\ \A i \in 1..attempted :
         \A d \in Descendants(graph, Exec[i]) : \E j \in 1..(i - 1) : Exec[j] = d
    /\ Range(invoked) \subseteq Started
    /\ Started \ Succeeded \subseteq (IF Failed THEN {Exec[attempted]} ELSE {})

\* a call has returned Ok after running two build functions along a chain of
\* three files, the last of them for the node at the top of the chain
C1_Witness ==
  /\ pc = "return"
  /\ result = Ok
  /\ Len(invoked) = 2
  /\ \E n \in Nodes :
       /\ Cardinality(Descendants(graph, n)) = 2
       /\ \E m \in Successors(graph, n) : Successors(graph, m) # {}
       /\ invoked[2] = n

\* C2 as stated: make(Normal) calls the build function of the node it processes
\* if and only if the output is missing or strictly older than a direct
\* dependency.
C2_InvokedIffStale ==
  [][(IsStep /\ make_params = "None" /\ HasFn(StepNode)) =>
       ((invoked' # invoked) <=> Stale(StepNode))]_vars

\* C2, amended: ... if and only if all its direct dependencies are on disk and
\* the output is missing or strictly older than one of them (equal times do
\* not rebuild); with a dependency missing the call fails before the function.
C2_InvokedIffStaleAndDepsPresent ==
  [][(IsStep /\ make_params = "None" /\ HasFn(StepNode)) =>
       ((invoked' # invoked) <=> (MissingDeps(StepNode) = {} /\ Stale(StepNode)))]_vars

\* a Normal call has run one build function and skipped another whose output
\* has the same modification time as its dependency
C2_Witness ==
  /\ InCall
  /\ make_params = "None"
  /\ Len(invoked) = 1
  /\ removed = {}
  /\ \E n \in Succeeded \ Range(invoked) :
       /\ HasFn(n)
       /\ \E d \in Successors(graph, n) : fs[FileOf(d)] = fs[FileOf(n)]

\* C3 as stated: a ForceBuild call has called every build function of the graph
\* when it returns.
C3_ForceInvokesAll ==
  (pc = "return" /\ make_params = "ForceBuild") =>
    \A n \in Nodes : HasFn(n) => n \in Range(invoked)

\* C3, amended: a ForceBuild call calls the build function of every node it
\* processes whose dependencies are on disk, whatever the timestamps; it stops at
\* the first error, so every build function has run when it returns Ok, and the
\* functions of the nodes after a failing node have not.
C3_ForceInvokesProcessed ==
  (InCall /\ make_params = "ForceBuild") =>
    /\ \A n \in Succeeded : HasFn(n) => n \in Range(invoked)
    /\ result = Ok => \A n \in Nodes : HasFn(n) => n \in Range(invoked)
    /\ (Failed /\ attempted > 0 /\ HasFn(Exec[attempted])
          /\ result.kind = "MissingFile" /\ result.path = FileOf(Exec[attempted]))
         => Exec[attempted] \in Range(invoked)
    /\ Range(invoked) \subseteq Started

\* a ForceBuild call right after a clean Normal call, with the files untouched in
\* between, has run both build functions again and returned Ok
C3_Witness ==
  /\ pc = "return"
  /\ make_params = "ForceBuild"
  /\ result = Ok
  /\ Len(invoked) = 2
  /\ since.call = "None"
  /\ since.clean

\* C4 as stated: a Normal call that follows a Normal call, with no change to the
\* files in between, calls no build function.
C4_SecondCallInvokesNothing ==
  (InCall /\ make_params = "None" /\ since.call = "None") => invoked = <<>>

\* C4, amended: ... calls no build function, provided the first call returned
\* Ok and every build function it called wrote its own output, leaving it no
\* older than its dependencies, and changed no other file.
C4_SecondCallAfterCleanInvokesNothing ==
  (InCall /\ make_params = "None" /\ since.call = "None" /\ since.clean) =>
    invoked = <<>>

\* a second Normal call has returned Ok without calling anything, after a first
\* one that ran two build functions
C4_Witness ==
  /\ pc = "return"
  /\ make_params = "None"
  /\ result = Ok
  /\ since.call = "None"
  /\ since.clean
  /\ since.built = 2
  /\ invoked = <<>>

C6_BuildFailedStops ==
  (InCall /\ fnret \in Msgs) =>
    /\ pc = "return"
    /\ result = BuildFailed(fnret)
    /\ invoked # <<>>
    /\ invoked[Len(invoked)] = Exec[attempted]

\* a call has ended with BuildFailed("msg_b") after an earlier node succeeded
\* and with a node left unprocessed
C6_Witness ==
  /\ pc = "return"
  /\ result = BuildFailed("msg_b")
  /\ attempted > 1
  /\ attempted < Len(order)

\* C7, last clause as stated: make never returns Ok while the file of a node is
\* absent.
C7_OkImpliesAllPresent ==
  (pc = "return" /\ result = Ok) => \A n \in Nodes : fs[FileOf(n)] # Absent

\* C7, amended: when, after the build step of a node, its file is not on disk,
\* the call ends with MissingFile naming that node's path, for a leaf and for a
\* node whose build function returned Ok alike; when make returns Ok, the file
\* of a node can be absent only if a build function deleted it during the call.
C7_OwnFileChecked ==
  /\ [][(/\ IsStep
          /\ MissingDeps(StepNode) = {}
          /\ ~(invoked' # invoked /\ fnret' \in Msgs)
          /\ fs'[FileOf(StepNode)] = Absent) =>
         (result' = MissingFile(FileOf(StepNode)) /\ pc' = "return")]_vars
  /\ [](InCall => \A n \in Succeeded :
           fs[FileOf(n)] # Absent \/ FileOf(n) \in removed)

\* a call has ended with MissingFile naming the output of a build function that
\* returned Ok and wrote nothing
C7_Witness ==
  /\ Failed
  /\ attempted > 0
  /\ result = MissingFile(FileOf(Exec[attempted]))
  /\ HasFn(Exec[attempted])
  /\ invoked # <<>>
  /\ invoked[Len(invoked)] = Exec[attempted]
  /\ fnret = "Ok"
  /\ removed = {}

\* C12: every call of a build function is given the output path of its rule and
\* the dependency paths of that rule in the order of the add_rule call.
C12_ArgumentsAsDeclared ==
  fnargs # NoArgs =>
    \E i \in DOMAIN edges :
      /\ edges[i].filename = fnargs.out
      /\ edges[i].dependencies = fnargs.deps


\* the leaves whose file is not on disk and was not there when the call
\* started: no build function deleted it during the call
MissingLeaves ==
  {l \in Nodes : ~HasFn(l) /\ fs[FileOf(l)] = Absent /\ FileOf(l) \notin removed}

\* the nodes that depend on l, directly or through other nodes
Dependents(l) == {n \in Nodes \ {l} : l \in Descendants(graph, n)}

\* C13 (as stated): when a leaf's file is not on disk, make(None) fails with
\* MissingFile naming that leaf, and no build function of a node that depends
\* on it has been invoked.
C13_MissingLeafReported ==
  (pc = "return" /\ make_params = "None") =>
    \A l \in MissingLeaves :
      /\ result = MissingFile(FileOf(l))
      /\ Dependents(l) \cap Range(invoked) = {}

\* C13 (amended): when a leaf's file is not on disk, make does not return Ok,
\* no build function of a node that depends on the leaf is invoked, and when the
\* loop reaches the leaf the call stops there with MissingFile naming it; an
\* error of a node processed before the leaf is returned instead.
C13_MissingLeafStopsDependents ==
  InCall =>
    \A l \in MissingLeaves :
      /\ Dependents(l) \cap Range(invoked) = {}
      /\ result # Ok
      /\ l \in Started => /\ Failed
                          /\ Exec[attempted] = l
                          /\ result = MissingFile(FileOf(l))
      /\ Failed /\ l \notin Started => Dependents(l) \cap Started = {}

\* R1 depends on R2's output, R2 on a leaf that is not on disk; make(None) has
\* returned MissingFile for the leaf without calling a build function, though
\* both outputs are missing too
C13_Witness ==
  /\ pc = "return"
  /\ make_params = "None"
  /\ Len(edges) = 2
  /\ edges[1].dependencies = <<2>>
  /\ edges[2].dependencies = <<3>>
  /\ fs = [p \in Paths |-> Absent]
  /\ result = MissingFile(3)
  /\ invoked = <<>>
  /\ MissingLeaves # {}


\* the build function of d was invoked during this call and rewrote its
\* output, which is still on disk
Rebuilt(d) ==
  /\ d \in Range(invoked)
  /\ FileOf(d) \in written
  /\ fs[FileOf(d)] # Absent

\* C15 (as stated): within one make(None), when the loop reaches a node one of
\* whose direct dependencies was rebuilt earlier in the call, and the call does
\* not fail before, the node's build function is invoked.
C15_RebuildPropagates ==
  [][(/\ IsStep
      /\ make_params = "None"
      /\ \E d \in Successors(graph, StepNode) : Rebuilt(d)
      /\ MissingDeps(StepNode) = {})
       => invoked' = Append(invoked, StepNode)]_vars

\* C15 (amended): the same, for a node whose output is missing or strictly
\* older than the rebuilt dependency.
C15_RebuildPropagatesToOlder ==
  [][(/\ IsStep
      /\ make_params = "None"
      /\ \E d \in Successors(graph, StepNode) :
           /\ Rebuilt(d)
           /\ \/ fs[FileOf(StepNode)] = Absent
              \/ fs[FileOf(d)] > fs[FileOf(StepNode)]
      /\ MissingDeps(StepNode) = {})
       => invoked' = Append(invoked, StepNode)]_vars

\* in a make(None), a dependency was rebuilt and then its dependent, whose
\* output was on disk and is not older than the file of the dependency
C15_Witness ==
  /\ InCall
  /\ make_params = "None"
  /\ Len(invoked) = 2
  /\ invoked[1] \in Successors(graph, invoked[2])
  /\ Rebuilt(invoked[1])
  /\ Rebuilt(invoked[2])
  /\ fs[FileOf(invoked[2])] >= fs[FileOf(invoked[1])]


\* C16: every graph that build() returns is acyclic (it has a topological
\* order, and no node reaches itself), so no make call on it returns Cycle.
C16_BuiltGraphAcyclic ==
  phase = "built" =>
    /\ Toposorts(graph) # {}
    /\ \A n \in Nodes : \A s \in Successors(graph, n) :
         n # s /\ n \notin ReachableFrom(graph, {s}, {})
    /\ result # Cycle

\* make has run to its end on a built graph in which a rule depends on the
\* output of the other, which depends on a leaf
C16_Witness ==
  /\ phase = "built"
  /\ pc = "return"
  /\ result = Ok
  /\ attempted = 3
  /\ graph.edges = <<<<1, 2>>, <<2, 3>>>>


\* C18: when a modification time cannot be read during the staleness test,
\* make returns to its caller with the Io error: the call never ends in a
\* panic, without a returned value.
C18_IoErrorReturned ==
  /\ result # Panicked
  /\ \A n \in Nodes :
       (/\ Failed
        /\ Exec[attempted] = n
        /\ make_params = "None"
        /\ invoked = <<>>
        /\ removed = {}
        /\ MissingDeps(n) = {}
        /\ HasFn(n)
        /\ fs[FileOf(n)] = NoMtime) => result = Io


\* C19 (as stated): when make(None) returns Ok and every build function it
\* called wrote its own output and touched no other file, every node's file is
\* on disk and no node with a build function is stale.
C19_OkLeavesNothingStale ==
  (/\ pc = "return"
   /\ make_params = "None"
   /\ result = Ok
   /\ removed = {}
   /\ \A n \in Range(invoked) : FileOf(n) \in written) =>
     /\ \A n \in Nodes : fs[FileOf(n)] # Absent
     /\ \A n \in Nodes : HasFn(n) => ~Stale(n)

\* C19 (amended): the same, when moreover every output written during the call
\* was left no older than the dependencies of its node.
C19_OkLeavesNothingStaleWhenWrittenNewer ==
  (/\ pc = "return"
   /\ make_params = "None"
   /\ result = Ok
   /\ behaved) =>
     /\ \A n \in Nodes : fs[FileOf(n)] # Absent
     /\ \A n \in Nodes : HasFn(n) => ~Stale(n)

\* make(None) has returned Ok after rebuilding a rule and then the rule that
\* depends on it, each build function writing its own output only
C19_Witness ==
  /\ pc = "return"
  /\ make_params = "None"
  /\ result = Ok
  /\ behaved
  /\ Len(invoked) = 2
  /\ invoked[1] \in Successors(graph, invoked[2])
  /\ written = {FileOf(invoked[1]), FileOf(invoked[2])}
  /\ \A n \in Nodes : HasFn(n) => ~Stale(n)


\* C20: as long as no build function has deleted a file during the call, the
\* test that a node's dependencies are on disk does not fail: every node the
\* loop reaches has all its dependencies on disk, and every MissingFile names
\* the node at which the loop stopped.
C20_MissingFileNamesProcessedNode ==
  /\ [][(IsStep /\ removed = {}) => MissingDeps(StepNode) = {}]_vars
  /\ []((Failed /\ result.kind = "MissingFile" /\ removed = {}) =>
          result = MissingFile(FileOf(Exec[attempted])))

\* make has stopped at its second node, a rule whose dependency is on disk,
\* with MissingFile for the rule's own output; no build function deleted a file
C20_Witness ==
  /\ Failed
  /\ removed = {}
  /\ attempted = 2
  /\ Successors(graph, Exec[2]) = {Exec[1]}
  /\ fs[FileOf(Exec[1])] # Absent
  /\ invoked # <<>>
  /\ result = MissingFile(FileOf(Exec[2]))

====
